---------------------------- MODULE Spec2Model ----------------------------
(***************************************************************************)
(* Model of argocd-watchdog.py: the version watchdog that scans manifest   *)
(* files for lines marked "# watchdog this", fetches candidate versions    *)
(* (RSS feed or OCI registry), selects the latest one and, in the update   *)
(* command with --apply, rewrites the pinned version on the marked line.   *)
(*                                                                         *)
(* Text is modelled character by character: a string is a sequence of      *)
(* one-character strings, a file is the sequence of its lines as returned  *)
(* by readlines() (the line terminator is not part of the alphabet, so     *)
(* writelines() followed by readlines() gives back the same sequence).     *)
(*                                                                         *)
(* version.parse is packaging.version.parse of packaging >= 22, which      *)
(* raises InvalidVersion on a string that is not a PEP 440 version.  The   *)
(* operator Parse covers the forms  v? N(.N)* ([-._]? rc [-._]? N?)?  ;    *)
(* the strings the model feeds it contain no epoch, post, dev or local     *)
(* part and no other pre-release tag, so every other string over the       *)
(* model's alphabet is invalid for packaging as well.                      *)
(***************************************************************************)
EXTENDS Integers, Sequences, FiniteSets, TLC

-----------------------------------------------------------------------------
(* Characters and strings *)

DigitChars == <<"0", "1", "2", "3", "4", "5", "6", "7", "8", "9">>

Digits == {DigitChars[i] : i \in 1..10}

IsDigit(c) == c \in Digits

DigitVal(c) == (CHOOSE i \in 1..10 : DigitChars[i] = c) - 1

Letters ==
  {"a", "b", "c", "d", "e", "f", "g", "h", "i", "j", "k", "l", "m", "n",
   "o", "p", "q", "r", "s", "t", "u", "v", "w", "x", "y", "z"}

\* \w of the re module
WordChars == Letters \cup Digits \cup {"_"}

\* \s of the re module
Spaces == {" ", "\t"}

Seps == {"-", ".", "_"}

\* the characters of the model's texts
Alphabet == WordChars \cup Spaces \cup Seps \cup {"#", ":", ","}

\* [^\s#] of the re module
TokenChars == Alphabet \ (Spaces \cup {"#"})

\* s[i..j], empty when j < i
Slice(s, i, j) == IF j < i THEN <<>> ELSE SubSeq(s, i, j)

\* sub occurs in s at position i
OccursAt(s, sub, i) ==
  /\ i >= 1
  /\ i + Len(sub) - 1 <= Len(s)
  /\ \A k \in 1..Len(sub) : s[i + k - 1] = sub[k]

RECURSIVE Find(_, _, _)
\* str.find(sub, from): the first position >= from where sub occurs, 0 if none
Find(s, sub, from) ==
  IF from + Len(sub) - 1 > Len(s) THEN 0
  ELSE IF OccursAt(s, sub, from) THEN from
  ELSE Find(s, sub, from + 1)

\* "sub in s"
Contains(s, sub) == \E i \in 1..Len(s) : OccursAt(s, sub, i)

RECURSIVE RunEnd(_, _, _)
\* the end of the maximal run of characters of the class C that starts at i
\* (i - 1 when the run is empty): a greedy  C+  or  C*
RunEnd(s, i, C) ==
  IF i <= Len(s) /\ s[i] \in C THEN RunEnd(s, i + 1, C) ELSE i - 1

DigitRunEnd(s, i) == RunEnd(s, i, Digits)

RECURSIVE ToNat(_)
\* int(s) for a string of digits
ToNat(s) ==
  IF s = <<>> THEN 0
  ELSE 10 * ToNat(SubSeq(s, 1, Len(s) - 1)) + DigitVal(s[Len(s)])

RECURSIVE NatToStr(_)
\* str(n) for n >= 0
NatToStr(n) ==
  IF n < 10 THEN <<DigitChars[n + 1]>>
  ELSE NatToStr(n \div 10) \o <<DigitChars[(n % 10) + 1]>>

RECURSIVE ReplaceFrom(_, _, _, _)
\* str.replace(old, new) from position i on: every non-overlapping
\* occurrence of old, left to right (old is not empty)
ReplaceFrom(s, old, new, i) ==
  LET p == Find(s, old, i) IN
  IF p = 0 THEN Slice(s, i, Len(s))
  ELSE Slice(s, i, p - 1) \o new \o ReplaceFrom(s, old, new, p + Len(old))

Replace(s, old, new) == ReplaceFrom(s, old, new, 1)

\* the value None and a value that is a string
None == [some |-> FALSE, val |-> <<>>]

Some(s) == [some |-> TRUE, val |-> s]

-----------------------------------------------------------------------------
(* packaging.version *)

Invalid == [ok |-> FALSE, release |-> <<>>, pre |-> -1]

RECURSIVE ParseRelease(_, _)
\* the release segment  N(.N)*  starting at i: its numbers and the position
\* after it (next = 0 when there is no number at i)
ParseRelease(s, i) ==
  LET e == DigitRunEnd(s, i) IN
  IF e < i THEN [segs |-> <<>>, next |-> 0]
  ELSE LET n == ToNat(SubSeq(s, i, e)) IN
       IF e + 2 <= Len(s) /\ s[e + 1] = "." /\ IsDigit(s[e + 2])
       THEN LET r == ParseRelease(s, e + 2) IN
            [segs |-> <<n>> \o r.segs, next |-> r.next]
       ELSE [segs |-> <<n>>, next |-> e + 1]

\* the pre-release part starting at p:  [-._]? rc [-._]? N?  up to the end of
\* the string; -1 is "no pre-release", -2 is "no match"
ParsePre(s, p) ==
  IF p > Len(s) THEN -1
  ELSE LET q == IF s[p] \in Seps THEN p + 1 ELSE p IN
       IF ~OccursAt(s, <<"r", "c">>, q) THEN -2
       ELSE LET a == q + 2
                b == IF a <= Len(s) /\ s[a] \in Seps THEN a + 1 ELSE a
                e == DigitRunEnd(s, b)
            IN IF e # Len(s) THEN -2 ELSE ToNat(Slice(s, b, e))

\* Version(s): the release numbers and the pre-release number (-1 for a
\* final release), or Invalid where packaging raises InvalidVersion
Parse(s) ==
  LET i == IF Len(s) >= 1 /\ s[1] = "v" THEN 2 ELSE 1
      r == ParseRelease(s, i)
  IN IF r.next = 0 THEN Invalid
     ELSE LET pre == ParsePre(s, r.next) IN
          IF pre = -2 THEN Invalid
          ELSE [ok |-> TRUE, release |-> r.segs, pre |-> pre]

RECURSIVE StripZeros(_)
\* _cmpkey: the release without its trailing zeros
StripZeros(rel) ==
  IF rel # <<>> /\ rel[Len(rel)] = 0
  THEN StripZeros(SubSeq(rel, 1, Len(rel) - 1))
  ELSE rel

RECURSIVE TupleLt(_, _)
\* the order of Python tuples of integers
TupleLt(a, b) ==
  IF b = <<>> THEN FALSE
  ELSE IF a = <<>> THEN TRUE
  ELSE IF a[1] # b[1] THEN a[1] < b[1]
  ELSE TupleLt(Tail(a), Tail(b))

\* a comparison that forgets the pre-release part of the key
VersionLt_ignores_pre(a, b) ==
  TupleLt(StripZeros(a.release), StripZeros(b.release))

\* Version.__lt__ : compares _key = (release without trailing zeros, pre),
\* where a final release has pre = Infinity
VersionLt(a, b) ==
  LET ra == StripZeros(a.release)
      rb == StripZeros(b.release)
  IN IF ra # rb THEN TupleLt(ra, rb)
     ELSE IF a.pre = -1 THEN FALSE
     ELSE IF b.pre = -1 THEN TRUE
     ELSE a.pre < b.pre

RECURSIVE JoinDots(_)
JoinDots(rel) ==
  IF Len(rel) = 1 THEN NatToStr(rel[1])
  ELSE NatToStr(rel[1]) \o <<".">> \o JoinDots(Tail(rel))

\* Version.__str__ : the normalised text of a version
VersionStr(v) ==
  JoinDots(v.release) \o
  (IF v.pre = -1 THEN <<>> ELSE <<"r", "c">> \o NatToStr(v.pre))

-----------------------------------------------------------------------------
(* The functions of argocd-watchdog.py *)

MarkerPhrase ==
  <<"#", " ", "w", "a", "t", "c", "h", "d", "o", "g", " ", "t", "h", "i", "s">>

\* \d+\.\d+\.\d+ at position i: the position of its last character, 0 if
\* it does not match there
MatchTripleAt(s, i) ==
  LET e1 == DigitRunEnd(s, i)
      e2 == DigitRunEnd(s, e1 + 2)
      e3 == DigitRunEnd(s, e2 + 2)
  IN IF /\ i <= Len(s) /\ e1 >= i
        /\ e1 + 1 <= Len(s) /\ s[e1 + 1] = "." /\ e2 >= e1 + 2
        /\ e2 + 1 <= Len(s) /\ s[e2 + 1] = "." /\ e3 >= e2 + 2
     THEN e3 ELSE 0

\* re.search(r"(\d+\.\d+\.\d+)", title): group 1 of the leftmost match
SearchTriple(title) ==
  IF \E i \in 1..Len(title) : MatchTripleAt(title, i) # 0
  THEN LET i == CHOOSE i \in 1..Len(title) :
                  /\ MatchTripleAt(title, i) # 0
                  /\ \A j \in 1..(i - 1) : MatchTripleAt(title, j) = 0
       IN Some(SubSeq(title, i, MatchTripleAt(title, i)))
  ELSE None

RECURSIVE RssVersions(_)
RssVersions(items) ==
  IF items = <<>> THEN <<>>
  ELSE LET m == SearchTriple(Head(items)) IN
       (IF m.some THEN <<m.val>> ELSE <<>>) \o RssVersions(Tail(items))

\* fetch_rss_versions: the response is the feed (ok, the item titles) or a
\* failure of the request or of the XML parse, which the except turns into []
fetch_rss_versions(resp) ==
  IF ~resp.ok THEN <<>> ELSE RssVersions(resp.items)

\* re.match(r"^v?\d+\.\d+\.\d+$", tag)
IsStrictTag(tag) ==
  LET i == IF Len(tag) >= 1 /\ tag[1] = "v" THEN 2 ELSE 1 IN
  Len(tag) >= 1 /\ MatchTripleAt(tag, i) = Len(tag)

RECURSIVE LStripV(_)
\* tag.lstrip("v")
LStripV(s) == IF s # <<>> /\ s[1] = "v" THEN LStripV(Tail(s)) ELSE s

RECURSIVE Flatten(_)
\* all_tags after the pagination loop: the tags of every page, in page order
Flatten(pages) ==
  IF pages = <<>> THEN <<>> ELSE Head(pages) \o Flatten(Tail(pages))

RECURSIVE OciVersions(_)
OciVersions(tags) ==
  IF tags = <<>> THEN <<>>
  ELSE (IF IsStrictTag(Head(tags)) THEN <<LStripV(Head(tags))>> ELSE <<>>)
       \o OciVersions(Tail(tags))

\* fetch_oci_versions: the response is the pages of the tag list, or a
\* failure (request, status, JSON) which the except turns into []
fetch_oci_versions(resp) ==
  IF ~resp.ok THEN <<>> ELSE OciVersions(Flatten(resp.pages))

\* re.match(r"\s*(\w+):\s*([^\s#]+)", line): the field name and the value
MatchField(line) ==
  LET a  == RunEnd(line, 1, Spaces) + 1
      we == RunEnd(line, a, WordChars)
      b  == RunEnd(line, we + 2, Spaces) + 1
      te == RunEnd(line, b, TokenChars)
  IN IF /\ a <= Len(line) /\ we >= a
        /\ we + 1 <= Len(line) /\ line[we + 1] = ":"
        /\ b <= Len(line) /\ te >= b
     THEN [ok |-> TRUE, field |-> SubSeq(line, a, we), value |-> SubSeq(line, b, te)]
     ELSE [ok |-> FALSE, field |-> <<>>, value |-> <<>>]

RECURSIVE ScanFrom(_, _)
ScanFrom(lines, i) ==
  IF i > Len(lines) THEN <<>>
  ELSE LET m == MatchField(lines[i]) IN
       (IF Contains(lines[i], MarkerPhrase) /\ m.ok
        THEN <<[line_num |-> i, field_name |-> m.field, current_version |-> m.value]>>
        ELSE <<>>) \o ScanFrom(lines, i + 1)

\* find_watchdog_lines: (line number, field name, current version) of every
\* marked line, in line order
find_watchdog_lines(lines) == ScanFrom(lines, 1)

\* max(parsed_versions): the first of the maximal elements
MaxIndex(pvs) ==
  CHOOSE i \in 1..Len(pvs) :
    /\ \A j \in 1..Len(pvs) : ~VersionLt(pvs[i], pvs[j])
    /\ \A j \in 1..(i - 1) : VersionLt(pvs[j], pvs[i])

get_latest_version(versions) ==
  IF versions = <<>> THEN None
  ELSE IF \A i \in 1..Len(versions) : Parse(versions[i]).ok
  THEN LET pvs == [i \in 1..Len(versions) |-> Parse(versions[i])] IN
       Some(VersionStr(pvs[MaxIndex(pvs)]))
  ELSE Some(versions[1])

\* lines[idx] of a Python list of length n: the 1-based position, 0 when
\* the index raises IndexError
PyIndex(n, idx) ==
  IF idx >= 0 THEN (IF idx < n THEN idx + 1 ELSE 0)
  ELSE (IF idx + n >= 0 THEN idx + n + 1 ELSE 0)

\* update_version_in_file without the "if not dry_run" around the write
update_version_in_file_ignores_dry_run(lines, line_num, old_version, new_version, dry_run) ==
  IF line_num > Len(lines) THEN [ret |-> FALSE, lines |-> lines]
  ELSE LET p == PyIndex(Len(lines), line_num - 1) IN
       IF p = 0 THEN [ret |-> FALSE, lines |-> lines]
       ELSE LET original_line == lines[p]
                updated_line == Replace(original_line, old_version, new_version)
            IN IF original_line = updated_line
               THEN [ret |-> FALSE, lines |-> lines]
               ELSE [ret |-> TRUE, lines |-> [lines EXCEPT ![p] = updated_line]]

\* update_version_in_file that writes the updated line alone:
\* f.writelines(updated_line)
update_version_in_file_writes_one_line(lines, line_num, old_version, new_version, dry_run) ==
  IF line_num > Len(lines) THEN [ret |-> FALSE, lines |-> lines]
  ELSE LET p == PyIndex(Len(lines), line_num - 1) IN
       IF p = 0 THEN [ret |-> FALSE, lines |-> lines]
       ELSE LET original_line == lines[p]
                updated_line == Replace(original_line, old_version, new_version)
            IN IF original_line = updated_line
               THEN [ret |-> FALSE, lines |-> lines]
               ELSE [ret |-> TRUE,
                     lines |-> IF dry_run THEN lines ELSE <<updated_line>>]

\* update_version_in_file without the "if original_line == updated_line"
update_version_in_file_no_change_test(lines, line_num, old_version, new_version, dry_run) ==
  IF line_num > Len(lines) THEN [ret |-> FALSE, lines |-> lines]
  ELSE LET p == PyIndex(Len(lines), line_num - 1) IN
       IF p = 0 THEN [ret |-> FALSE, lines |-> lines]
       ELSE LET original_line == lines[p]
                updated_line == Replace(original_line, old_version, new_version)
            IN [ret |-> TRUE,
                lines |-> IF dry_run THEN lines
                          ELSE [lines EXCEPT ![p] = updated_line]]

\* update_version_in_file on a file whose lines are `lines`: the value
\* returned and the lines of the file afterwards
update_version_in_file(lines, line_num, old_version, new_version, dry_run) ==
  IF line_num > Len(lines) THEN [ret |-> FALSE, lines |-> lines]
  ELSE LET p == PyIndex(Len(lines), line_num - 1) IN
       IF p = 0 THEN [ret |-> FALSE, lines |-> lines]
       ELSE LET original_line == lines[p]
                updated_line == Replace(original_line, old_version, new_version)
            IN IF original_line = updated_line
               THEN [ret |-> FALSE, lines |-> lines]
               ELSE [ret |-> TRUE,
                     lines |-> IF dry_run THEN lines
                               ELSE [lines EXCEPT ![p] = updated_line]]

-----------------------------------------------------------------------------
(* Bounds and the inputs of the model *)

\* dependencies in the configuration
MaxDeps == 2

\* invocations of the tool, one after the other, on the same files
MaxRuns == 2

\* length of a candidate list handed directly to get_latest_version
MaxCands == 2

\* line numbers handed directly to update_version_in_file: -LineSpan..LineSpan
LineSpan == 3

\* direct calls of update_version_in_file, one after the other
MaxCalls == 1

\* "a b c" with single characters: the text of a short word
Sp == <<" ">>

S1 == <<"1">>

S100 == <<"1", ".", "0", ".", "0">>

S110 == <<"1", ".", "1", ".", "0">>

S120 == <<"1", ".", "2", ".", "0">>

S200 == <<"2", ".", "0", ".", "0">>

S1100 == <<"1", ".", "1", "0", ".", "0">>

Sv110 == <<"v">> \o S110

S120rc1 == S120 \o <<"-", "r", "c", "1">>

S110rc == S110 \o <<"-", "r", "c">>

Sx == <<"x">>

Slatest == <<"l", "a", "t", "e", "s", "t">>

App == <<"a", "p", "p", " ">>

\* manifest lines
LineName == <<"n", "a", "m", "e", ":", " ", "a", "p", "p">>

LineImg == <<"i", "m", "g", ":", " ">> \o S100 \o Sp \o MarkerPhrase

LineV1 == <<"v", "1", ":", " ">> \o S1 \o Sp \o MarkerPhrase

LineRc == <<" ", "t", "a", "g", ":", " ">> \o S120rc1 \o Sp \o MarkerPhrase

LinePre == <<"v", "e", "r", ":">> \o Sv110 \o MarkerPhrase

LineBad == <<"r", "e", "v", ":", " ">> \o Sx \o Sp \o MarkerPhrase

LineDup == <<"i", "m", "g", ":", " ">> \o S100 \o Sp \o MarkerPhrase \o Sp \o S100

LineNote == <<" ">> \o MarkerPhrase

FileIds == {"a.yaml", "b.yaml"}

\* the contents a.yaml and b.yaml start with
ContentsA ==
  { <<LineBad, LineDup>>,
    <<LineImg, LineRc>>,
    <<LineV1, LineNote, LineImg>>,
    <<LineName>> }

ContentsB == { <<LinePre, LineRc>> }

\* what the upstream of a dependency answers
RssFeed == [ok |-> TRUE, items |-> <<App \o S100, App \o S120, <<"n", "e", "w", "s">>, App \o S110>>, pages |-> <<>>]

OciPaged == [ok |-> TRUE, items |-> <<>>, pages |-> << <<<<"v">> \o S100, Sv110>>, <<Slatest, S110rc>> >>]

OciTwo == [ok |-> TRUE, items |-> <<>>, pages |-> << <<<<"v">> \o S200, S1100>> >>]

Failure == [ok |-> FALSE, items |-> <<>>, pages |-> <<>>]

\* the dependency entries a configuration is made of: source.file ("" when
\* the key is absent), repository.type, whether repository.url is set, and
\* the answer of the upstream
Dep(f, t, u, r) == [file |-> f, type |-> t, url |-> u, resp |-> r]

DepChoices ==
  { Dep("a.yaml", "rss", TRUE, RssFeed),
    Dep("a.yaml", "rss", TRUE, Failure),
    Dep("b.yaml", "oci", TRUE, OciPaged),
    Dep("a.yaml", "oci", TRUE, OciTwo),
    Dep("missing.yaml", "git", FALSE, Failure) }

Configs == UNION { [1..n -> DepChoices] : n \in 1..MaxDeps }

\* candidate strings and lists handed directly to get_latest_version
CandStrings == {S100, S120, S1100, Sv110, S120rc1, S1, Sx, Slatest}

CandLists == UNION { [1..n -> CandStrings] : n \in 0..MaxCands }

-----------------------------------------------------------------------------
(* State *)

VARIABLES
  files,              \* the manifest files on disk: name -> lines
  config,             \* config["dependencies"]
  pc,                 \* where the process is: idle, dep, marker, done, unit, ret
  cmd,                \* the command of the current run: check, update
  apply,              \* --apply  (update_version_in_file gets dry_run = not apply)
  dep_i,              \* position of the loop over config["dependencies"]
  watchdog_lines,     \* the markers scanned for the current dependency
  marker_i,           \* position of the loop over watchdog_lines
  available_versions, \* the candidates fetched for the current dependency
  latest_version,     \* get_latest_version(available_versions)
  table,              \* the rows added to the table
  updates,            \* updates_available (check) or updates_made (update)
  updates_skipped,
  summary,            \* update-summary.md: its rows, None when not written
  exit_code,
  runs,               \* number of invocations started
  files0,             \* history: the files when the current run started
  prev,               \* history: the previous run
  last_call,          \* history: the last call of update_version_in_file
                      \* (row: the table row of the marker it was made for,
                      \* 0 for a direct call)
  oci_url,            \* fetch_oci_versions: its argument
  web,                \* the registries: what each URL answers
  api_registry,       \* fetch_oci_versions: the host of the tags endpoint
  tags_url,           \* fetch_oci_versions: the URL to request next, or None
  all_tags,           \* fetch_oci_versions: the tags accumulated
  requested           \* history: the URLs requested, with their responses

vars ==
  <<files, config, pc, cmd, apply, dep_i, watchdog_lines, marker_i,
    available_versions, latest_version, table, updates, updates_skipped,
    summary, exit_code, runs, files0, prev, last_call,
    oci_url, web, api_registry, tags_url, all_tags, requested>>

\* the variables of a call of fetch_oci_versions on its own
fetch_vars == <<oci_url, web, api_registry, tags_url, all_tags, requested>>

\* no call of fetch_oci_versions on its own is under way
NoFetch ==
  /\ oci_url = <<>>
  /\ web = <<>>
  /\ api_registry = <<>>
  /\ tags_url = None
  /\ all_tags = <<>>
  /\ requested = <<>>

NoCall ==
  [made |-> FALSE, file |-> "", line_num |-> 0, old |-> <<>>, new |-> <<>>,
   dry_run |-> FALSE, before |-> <<>>, ret |-> FALSE, row |-> 0]

NoRun ==
  [cmd |-> "none", apply |-> FALSE, exit_code |-> 0, table |-> <<>>,
   files0 |-> <<>>, files |-> <<>>]

Exists(f) == f \in DOMAIN files

-----------------------------------------------------------------------------
(* The check and update commands *)

Row(d, f, m, latest, status) ==
  [dep |-> d, file |-> f, line_num |-> m.line_num,
   current |-> m.current_version, latest |-> latest, status |-> status]

\* "if latest_version:" : neither None nor the empty string
Truthy(latest) == latest.some /\ latest.val # <<>>

\* version.parse(latest_version) > version.parse(current_ver); the caller
\* has checked that both parse
LatestIsNewer(latest, current_ver) ==
  VersionLt(Parse(current_ver), Parse(latest.val))

BothParse(latest, current_ver) ==
  Parse(latest.val).ok /\ Parse(current_ver).ok

\* a dispatch where available_versions is not reset for each dependency: a
\* failed fetch leaves the candidates of the previous dependency in place
Fetch_keeps_previous(dep) ==
  IF dep.type \in {"rss", "oci"} /\ dep.url /\ ~dep.resp.ok THEN available_versions
  ELSE IF dep.type = "rss" /\ dep.url THEN fetch_rss_versions(dep.resp)
  ELSE IF dep.type = "oci" /\ dep.url THEN fetch_oci_versions(dep.resp)
  ELSE <<>>

\* the available_versions of a dependency: the dispatch on repository.type
Fetch(dep) ==
  IF dep.type = "rss" /\ dep.url THEN fetch_rss_versions(dep.resp)
  ELSE IF dep.type = "oci" /\ dep.url THEN fetch_oci_versions(dep.resp)
  ELSE <<>>

\* the status check() gives a marker
CheckStatus(latest, current_ver) ==
  IF ~Truthy(latest) THEN "Cannot check"
  ELSE IF ~BothParse(latest, current_ver) THEN "Unknown"
  ELSE IF LatestIsNewer(latest, current_ver) THEN "Update available"
  ELSE "Up to date"

\* update_version_in_file called on the file f of the file system fs: the
\* record of the call (arguments, lines before, value returned) and the
\* lines of f afterwards; open() of a missing file raises, the function
\* returns False
CallUpdate(fs, f, line_num, old, new, dry) ==
  LET r == IF f \in DOMAIN fs
           THEN update_version_in_file(fs[f], line_num, old, new, dry)
           ELSE [ret |-> FALSE, lines |-> <<>>]
  IN [call |-> [made |-> TRUE, file |-> f, line_num |-> line_num, old |-> old,
                new |-> new, dry_run |-> dry,
                before |-> IF f \in DOMAIN fs THEN fs[f] ELSE <<>>,
                ret |-> r.ret, row |-> 0],
      fs |-> IF f \in DOMAIN fs THEN [fs EXCEPT ![f] = r.lines] ELSE fs]

\* the body of the loop of update() over watchdog_lines, for the marker m
\* of file f: the status of the row, the call of update_version_in_file it
\* made (if any) and the files afterwards
UpdateRow(fs, f, m, latest, app) ==
  IF ~Truthy(latest)
  THEN [status |-> "Cannot check", call |-> NoCall, fs |-> fs]
  ELSE IF ~BothParse(latest, m.current_version)
  THEN [status |-> "Error", call |-> NoCall, fs |-> fs]
  ELSE IF LatestIsNewer(latest, m.current_version)
  THEN LET c == CallUpdate(fs, f, m.line_num, m.current_version, latest.val, ~app) IN
       [status |-> IF c.call.ret
                   THEN (IF app THEN "Updated" ELSE "Would update")
                   ELSE "Failed",
        call |-> c.call, fs |-> c.fs]
  ELSE [status |-> "Already latest", call |-> NoCall, fs |-> fs]

IsReported(row) == row.status \in {"Updated", "Would update"}

ThisRun ==
  [cmd |-> cmd, apply |-> apply, exit_code |-> exit_code, table |-> table,
   files0 |-> files0, files |-> files]

Init ==
  /\ files \in {[f \in FileIds |-> IF f = "a.yaml" THEN a ELSE b] :
                  a \in ContentsA, b \in ContentsB}
  /\ config \in Configs
  /\ pc = "idle"
  /\ cmd = "none"
  /\ apply = FALSE
  /\ dep_i = 0
  /\ watchdog_lines = <<>>
  /\ marker_i = 0
  /\ available_versions = <<>>
  /\ latest_version = None
  /\ table = <<>>
  /\ updates = 0
  /\ updates_skipped = 0
  /\ summary = None
  /\ exit_code = 0
  /\ runs = 0
  /\ files0 = files
  /\ prev = NoRun
  /\ last_call = NoCall
  /\ NoFetch

\* a new invocation of the tool: everything but the disk starts afresh
Begin(c, app) ==
  /\ pc \in {"idle", "done"}
  /\ runs < MaxRuns
  /\ runs' = runs + 1
  /\ cmd' = c
  /\ apply' = app
  /\ prev' = IF pc = "done" THEN ThisRun ELSE prev
  /\ files0' = files
  /\ table' = <<>>
  /\ updates' = 0
  /\ updates_skipped' = 0
  /\ watchdog_lines' = <<>>
  /\ marker_i' = 0
  /\ available_versions' = <<>>
  /\ latest_version' = None
  /\ last_call' = NoCall
  /\ UNCHANGED <<files, config, summary>>
  /\ UNCHANGED fetch_vars

\* check: the configuration is loaded, the loop over the dependencies starts
StartCheck ==
  /\ Begin("check", FALSE)
  /\ dep_i' = 1
  /\ pc' = "dep"
  /\ exit_code' = 0

\* update --dry-run or update --apply
StartUpdate ==
  \E app \in BOOLEAN :
    /\ Begin("update", app)
    /\ dep_i' = 1
    /\ pc' = "dep"
    /\ exit_code' = 0

\* update with both flags or with none: typer.Exit(1) before anything is
\* read; the flags are not looked at again, the run is kept with apply FALSE
UsageError ==
  \E dry \in BOOLEAN, app \in BOOLEAN :
    /\ dry = app
    /\ Begin("update", FALSE)
    /\ dep_i' = 0
    /\ pc' = "done"
    /\ exit_code' = 1

\* a dependency without source file, with a file that does not exist or
\* with a file without markers: continue
SkipDep ==
  /\ pc = "dep"
  /\ dep_i <= Len(config)
  /\ LET dep == config[dep_i] IN
       IF dep.file = "" \/ ~Exists(dep.file) THEN TRUE
       ELSE find_watchdog_lines(files[dep.file]) = <<>>
  /\ dep_i' = dep_i + 1
  /\ UNCHANGED <<files, config, pc, cmd, apply, watchdog_lines, marker_i,
                 available_versions, latest_version, table, updates,
                 updates_skipped, summary, exit_code, runs, files0, prev,
                 last_call>>
  /\ UNCHANGED fetch_vars

\* scan the markers of the dependency's file, fetch its candidates, select
\* the latest
BeginDep ==
  /\ pc = "dep"
  /\ dep_i <= Len(config)
  /\ config[dep_i].file # ""
  /\ Exists(config[dep_i].file)
  /\ LET dep == config[dep_i]
         found == find_watchdog_lines(files[dep.file])
         fetched == Fetch(dep)
     IN /\ found # <<>>
        /\ watchdog_lines' = found
        /\ available_versions' = fetched
        /\ latest_version' = get_latest_version(fetched)
  /\ marker_i' = 1
  /\ pc' = "marker"
  /\ UNCHANGED <<files, config, cmd, apply, dep_i, table, updates,
                 updates_skipped, summary, exit_code, runs, files0, prev,
                 last_call>>
  /\ UNCHANGED fetch_vars

\* the end of an iteration of the loop over watchdog_lines
Advance ==
  IF marker_i = Len(watchdog_lines)
  THEN /\ dep_i' = dep_i + 1
       /\ marker_i' = 0
       /\ pc' = "dep"
  ELSE /\ marker_i' = marker_i + 1
       /\ UNCHANGED <<dep_i, pc>>

\* check: one marker of the current dependency
CheckMarker ==
  /\ pc = "marker"
  /\ cmd = "check"
  /\ LET m == watchdog_lines[marker_i]
         status == CheckStatus(latest_version, m.current_version)
     IN /\ table' = Append(table, Row(dep_i, config[dep_i].file, m, latest_version, status))
        /\ updates' = IF status = "Update available" THEN updates + 1 ELSE updates
  /\ Advance
  /\ UNCHANGED <<files, config, cmd, apply, watchdog_lines, available_versions,
                 latest_version, updates_skipped, summary, exit_code, runs,
                 files0, prev, last_call>>
  /\ UNCHANGED fetch_vars

\* update: one marker of the current dependency
UpdateMarker ==
  /\ pc = "marker"
  /\ cmd = "update"
  /\ \E r \in {UpdateRow(files, config[dep_i].file, watchdog_lines[marker_i],
                           latest_version, apply)} :
     LET m == watchdog_lines[marker_i]
     IN /\ table' = Append(table, Row(dep_i, config[dep_i].file, m, latest_version, r.status))
        /\ files' = r.fs
        /\ last_call' = IF r.call.made
                        THEN [r.call EXCEPT !.row = Len(table) + 1]
                        ELSE last_call
        /\ updates' = IF r.status \in {"Updated", "Would update"}
                      THEN updates + 1 ELSE updates
        /\ updates_skipped' = IF r.status \in {"Already latest", "Error", "Cannot check"}
                              THEN updates_skipped + 1 ELSE updates_skipped
  /\ Advance
  /\ UNCHANGED <<config, cmd, apply, watchdog_lines, available_versions,
                 latest_version, summary, exit_code, runs, files0, prev>>
  /\ UNCHANGED fetch_vars

\* after the last dependency: the table is printed; check exits with 1 when
\* an update is available, update writes update-summary.md when a row was
\* updated or would be
Finish ==
  /\ pc = "dep"
  /\ dep_i > Len(config)
  /\ pc' = "done"
  /\ exit_code' = IF cmd = "check" /\ updates > 0 THEN 1 ELSE 0
  /\ summary' = IF cmd = "update" /\ SelectSeq(table, IsReported) # <<>>
                THEN Some(SelectSeq(table, IsReported))
                ELSE summary
  /\ UNCHANGED <<files, config, cmd, apply, dep_i, watchdog_lines, marker_i,
                 available_versions, latest_version, table, updates,
                 updates_skipped, runs, files0, prev, last_call>>
  /\ UNCHANGED fetch_vars

Next ==
  \/ StartCheck
  \/ StartUpdate
  \/ UsageError
  \/ SkipDep
  \/ BeginDep
  \/ CheckMarker
  \/ UpdateMarker
  \/ Finish

Spec == Init /\ [][Next]_vars

-----------------------------------------------------------------------------
(* get_latest_version on its own: any list of candidate strings *)

Idle ==
  /\ cmd = "none"
  /\ apply = FALSE
  /\ dep_i = 0
  /\ watchdog_lines = <<>>
  /\ marker_i = 0
  /\ table = <<>>
  /\ updates = 0
  /\ updates_skipped = 0
  /\ summary = None
  /\ exit_code = 0
  /\ runs = 0
  /\ prev = NoRun
  /\ last_call = NoCall

InitLatest ==
  /\ files = [f \in FileIds |-> <<LineName>>]
  /\ files0 = files
  /\ config = <<>>
  /\ pc = "unit"
  /\ available_versions \in CandLists
  /\ latest_version = None
  /\ Idle
  /\ NoFetch

CallLatest ==
  /\ pc = "unit"
  /\ latest_version' = get_latest_version(available_versions)
  /\ pc' = "ret"
  /\ UNCHANGED <<files, config, cmd, apply, dep_i, watchdog_lines, marker_i,
                 available_versions, table, updates, updates_skipped, summary,
                 exit_code, runs, files0, prev, last_call>>
  /\ UNCHANGED fetch_vars

NextLatest == CallLatest

SpecLatest == InitLatest /\ [][NextLatest]_vars

-----------------------------------------------------------------------------
(* update_version_in_file and the loop body of update() on their own: any *)
(* line number, old and new text, and markers that need not come from a   *)
(* scan of the file as it is now                                          *)

CallFiles == {"a.yaml", "missing.yaml"}

OldChoices == {S100, S1, S200}

NewChoices == {S110, S200}

StaleCurrent == {S100, S1, Sx}

StaleLatest == {None, Some(S110), Some(S200)}

InitRewrite ==
  /\ files \in {[f \in FileIds |-> IF f = "a.yaml" THEN a ELSE b] :
                  a \in ContentsA, b \in ContentsB}
  /\ files0 = files
  /\ config = <<>>
  /\ pc = "unit"
  /\ available_versions = <<>>
  /\ latest_version = None
  /\ Idle
  /\ NoFetch

\* update_version_in_file(f, n, old, new, dry)
CallRewrite ==
  /\ pc = "unit"
  /\ runs < MaxCalls
  /\ \E f \in CallFiles, n \in (-LineSpan)..LineSpan, old \in OldChoices,
        new \in NewChoices, dry \in BOOLEAN :
       \E c \in {CallUpdate(files, f, n, old, new, dry)} :
         /\ files' = c.fs
         /\ last_call' = c.call
  /\ runs' = runs + 1
  /\ UNCHANGED <<config, pc, cmd, apply, dep_i, watchdog_lines, marker_i,
                 available_versions, latest_version, table, updates,
                 updates_skipped, summary, exit_code, files0, prev>>
  /\ UNCHANGED fetch_vars

\* one iteration of the loop of update() over watchdog_lines, for a marker
\* (n, current) of a.yaml
MarkerStep ==
  /\ pc = "unit"
  /\ runs < MaxCalls
  /\ \E n \in 1..LineSpan, cur \in StaleCurrent, latest \in StaleLatest,
        app \in BOOLEAN :
       LET m == [line_num |-> n, field_name |-> <<>>, current_version |-> cur] IN
       \E r \in {UpdateRow(files, "a.yaml", m, latest, app)} :
         /\ cmd' = "update"
         /\ apply' = app
         /\ latest_version' = latest
         /\ table' = Append(table, Row(0, "a.yaml", m, latest, r.status))
         /\ files' = r.fs
         /\ last_call' = IF r.call.made
                         THEN [r.call EXCEPT !.row = Len(table) + 1]
                         ELSE last_call
         /\ updates' = IF r.status \in {"Updated", "Would update"}
                       THEN updates + 1 ELSE updates
         /\ updates_skipped' = IF r.status \in {"Already latest", "Error", "Cannot check"}
                               THEN updates_skipped + 1 ELSE updates_skipped
  /\ runs' = runs + 1
  /\ UNCHANGED <<config, pc, dep_i, watchdog_lines, marker_i,
                 available_versions, summary, exit_code, files0, prev>>
  /\ UNCHANGED fetch_vars

NextRewrite == CallRewrite \/ MarkerStep

SpecRewrite == InitRewrite /\ [][NextRewrite]_vars

-----------------------------------------------------------------------------
(* fetch_oci_versions step by step: the URL, the pagination loop, the filter *)

OciScheme == <<"o", "c", "i", ":", "/", "/">>

Https == <<"h", "t", "t", "p", "s", ":", "/", "/">>

V2 == <<"/", "v", "2", "/">>

TagsList == <<"/", "t", "a", "g", "s", "/", "l", "i", "s", "t">>

DockerIo == <<"d", "o", "c", "k", "e", "r", ".", "i", "o">>

DockerApi == <<"r", "e", "g", "i", "s", "t", "r", "y", "-", "1", ".", "d", "o", "c", "k", "e", "r", ".", "i", "o">>

RelNext == <<"r", "e", "l", "=", "\"", "n", "e", "x", "t", "\"">>

\* s.startswith(pre)
StartsWith(s, pre) == OccursAt(s, pre, 1)

\* oci_url[6:] when oci_url starts with "oci://"
StripScheme(u) ==
  IF StartsWith(u, OciScheme) THEN Slice(u, Len(OciScheme) + 1, Len(u)) ELSE u

\* oci_url.split("/", 1)
SplitOnce(u) ==
  LET p == Find(u, <<"/">>, 1) IN
  IF p = 0 THEN <<u>> ELSE <<Slice(u, 1, p - 1), Slice(u, p + 1, Len(u))>>

\* api_registry: Docker Hub is served by registry-1.docker.io
ApiRegistry(registry) == IF registry = DockerIo THEN DockerApi ELSE registry

\* f"https://{api_registry}/v2/{repository}/tags/list"
FirstTagsUrl(api, repository) == Https \o api \o V2 \o repository \o TagsList

NoMatch == [ok |-> FALSE, group |-> <<>>]

\* <([^>]+)>;\s*rel="next" tried at position i: the group runs to the first
\* ">" after i and is not empty
MatchNextAt(s, i) ==
  LET e == Find(s, <<">">>, i + 1)
      b == RunEnd(s, e + 2, Spaces) + 1
  IN IF /\ s[i] = "<"
        /\ e > i + 1
        /\ e + 1 <= Len(s) /\ s[e + 1] = ";"
        /\ OccursAt(s, RelNext, b)
     THEN [ok |-> TRUE, group |-> SubSeq(s, i + 1, e - 1)]
     ELSE NoMatch

RECURSIVE SearchNext(_, _)
\* re.search(r'<([^>]+)>;\s*rel="next"', link_header): the leftmost match
SearchNext(s, i) ==
  IF i > Len(s) THEN NoMatch
  ELSE IF MatchNextAt(s, i).ok THEN MatchNextAt(s, i)
  ELSE SearchNext(s, i + 1)

\* a _get_next_page_url that hands a relative link back as it is
get_next_page_url_unresolved(link_header, registry) ==
  IF link_header = <<>> THEN None
  ELSE LET m == SearchNext(link_header, 1) IN
       IF m.ok THEN Some(m.group) ELSE None

\* _get_next_page_url(response, registry), from the Link header of the
\* response
get_next_page_url(link_header, registry) ==
  IF link_header = <<>> THEN None
  ELSE LET m == SearchNext(link_header, 1) IN
       IF ~m.ok THEN None
       ELSE IF StartsWith(m.group, <<"/">>) THEN Some(Https \o registry \o m.group)
       ELSE Some(m.group)

\* a link of a Link header
Link(target, rel) == [target |-> target, rel |-> rel]

\* what a URL answers: ok (the status is not an error and the body is JSON),
\* the "tags" of the body (null_tags: the body says "tags": null), the links
\* of its Link header and the white space the header puts before rel=
Response(url, ok, null_tags, tags, links, sep) ==
  [url |-> url, ok |-> ok, null_tags |-> null_tags, tags |-> tags,
   links |-> links, sep |-> sep]

RECURSIVE RenderLinks(_, _)
\* the text of the Link header: <target>; rel="next", <target>; rel="prev"
RenderLinks(links, sep) ==
  IF links = <<>> THEN <<>>
  ELSE <<"<">> \o Head(links).target \o <<">", ";">> \o sep
       \o <<"r", "e", "l", "=", "\"">> \o Head(links).rel \o <<"\"">>
       \o (IF Len(links) > 1 THEN <<",", " ">> ELSE <<>>)
       \o RenderLinks(Tail(links), sep)

\* response.headers.get("Link", "")
LinkHeader(resp) == RenderLinks(resp.links, resp.sep)

\* requests.get(url): the answer of the registries w, a failure for a URL
\* nothing answers
Lookup(w, url) ==
  IF \E i \in 1..Len(w) : w[i].url = url
  THEN w[CHOOSE i \in 1..Len(w) : w[i].url = url /\ \A j \in 1..(i - 1) : w[j].url # url]
  ELSE Response(url, FALSE, FALSE, <<>>, <<>>, <<>>)

\* requests of one call of fetch_oci_versions: the registry may link its
\* pages in a circle, the loop has no cap of its own
MaxPages == 3

RIo == <<"r", ".", "i", "o">>

RepoA == <<"a">>

RepoLA == <<"l", "/", "a">>

P0 == <<"/", "p", "0">>

P2 == <<"/", "p", "2">>

P3 == <<"/", "p", "3">>

P2Bare == <<"p", "2">>

Mirror == <<"h", "t", "t", "p", "s", ":", "/", "/", "m", ".", "i", "o", "/", "p", "2">>

RelN == <<"n", "e", "x", "t">>

RelP == <<"p", "r", "e", "v">>

OciUrls ==
  { OciScheme \o RIo \o <<"/">> \o RepoA,
    RIo \o <<"/">> \o RepoA,
    OciScheme \o DockerIo \o <<"/">> \o RepoLA,
    DockerIo }

TagsV100V110 == << <<"v">> \o S100, Sv110 >>

TagsLatestRc == <<Slatest, S110rc>>

\* the registries: for the API host h and the repository p, what the first
\* tags URL and the URLs its links lead to answer
WebsOf(h, p) ==
  LET u1 == Https \o h \o V2 \o p \o TagsList
      ok(url, tags, links, sep) == Response(url, TRUE, FALSE, tags, links, sep)
  IN { \* one page, no Link header
       << ok(u1, TagsV100V110, <<>>, Sp) >>,
       \* two pages, the second behind a relative link
       << ok(u1, TagsV100V110, <<Link(P2, RelN)>>, Sp),
          ok(Https \o h \o P2, TagsLatestRc, <<>>, Sp) >>,
       \* three pages: an absolute link to another host, whose page names
       \* the previous page first and the next one by a relative link
       << ok(u1, TagsV100V110, <<Link(Mirror, RelN)>>, Sp),
          ok(Mirror, <<S200>>, <<Link(P0, RelP), Link(P3, RelN)>>, <<>>),
          ok(Https \o h \o P3, <<S1100>>, <<>>, Sp) >>,
       \* one page that only links back
       << ok(u1, <<S100>>, <<Link(P0, RelP)>>, Sp) >>,
       \* the second page fails
       << ok(u1, TagsV100V110, <<Link(P2, RelN)>>, Sp) >>,
       \* the first page links to itself
       << ok(u1, <<S100>>, <<Link(V2 \o p \o TagsList, RelN)>>, Sp) >>,
       \* "tags": null
       << Response(u1, TRUE, TRUE, <<>>, <<>>, Sp) >>,
       \* a link that is neither a URL nor a path from the root
       << ok(u1, <<S100>>, <<Link(P2Bare, RelN)>>, Sp) >> }

Webs == WebsOf(RIo, RepoA) \cup WebsOf(DockerApi, RepoLA)

InitPages ==
  /\ files = [f \in FileIds |-> <<LineName>>]
  /\ files0 = files
  /\ config = <<>>
  /\ pc = "start"
  /\ available_versions = <<>>
  /\ latest_version = None
  /\ Idle
  /\ oci_url \in OciUrls
  /\ web \in Webs
  /\ api_registry = <<>>
  /\ tags_url = None
  /\ all_tags = <<>>
  /\ requested = <<>>

\* fetch_oci_versions up to its loop: the URL is split into registry and
\* repository (a URL without "/" returns []), the token is asked for (a
\* failure there leaves the request without Authorization header; the
\* registries of the model answer the same either way), the first tags URL
\* is built
StartFetch ==
  /\ pc = "start"
  /\ LET parts == SplitOnce(StripScheme(oci_url)) IN
       IF Len(parts) # 2
       THEN /\ pc' = "ret"
            /\ available_versions' = <<>>
            /\ UNCHANGED <<api_registry, tags_url>>
       ELSE /\ api_registry' = ApiRegistry(parts[1])
            /\ tags_url' = Some(FirstTagsUrl(ApiRegistry(parts[1]), parts[2]))
            /\ pc' = "loop"
            /\ UNCHANGED available_versions
  /\ UNCHANGED <<files, config, cmd, apply, dep_i, watchdog_lines, marker_i,
                 latest_version, table, updates, updates_skipped, summary,
                 exit_code, runs, files0, prev, last_call>>
  /\ UNCHANGED <<oci_url, web, all_tags, requested>>

\* one iteration of "while tags_url:": the request, raise_for_status and
\* json() (a failure goes to the except: return []), all_tags.extend (of
\* None: TypeError, to the except as well), the next URL from the Link header
RequestPage ==
  /\ pc = "loop"
  /\ Truthy(tags_url)
  /\ Len(requested) < MaxPages
  /\ LET response == Lookup(web, tags_url.val) IN
       /\ requested' = Append(requested, response)
       /\ IF ~response.ok \/ response.null_tags
          THEN /\ pc' = "ret"
               /\ available_versions' = <<>>
               /\ UNCHANGED <<all_tags, tags_url>>
          ELSE LET next == get_next_page_url(LinkHeader(response), api_registry) IN
               /\ all_tags' = all_tags \o response.tags
               /\ tags_url' = next
               /\ pc' = IF Truthy(next) THEN "loop" ELSE "filter"
               /\ UNCHANGED available_versions
  /\ UNCHANGED <<files, config, cmd, apply, dep_i, watchdog_lines, marker_i,
                 latest_version, table, updates, updates_skipped, summary,
                 exit_code, runs, files0, prev, last_call>>
  /\ UNCHANGED <<oci_url, web, api_registry>>

\* after the loop: the tags that are strict triples, without their "v"
FilterTags ==
  /\ pc = "filter"
  /\ available_versions' = OciVersions(all_tags)
  /\ pc' = "ret"
  /\ UNCHANGED <<files, config, cmd, apply, dep_i, watchdog_lines, marker_i,
                 latest_version, table, updates, updates_skipped, summary,
                 exit_code, runs, files0, prev, last_call>>
  /\ UNCHANGED fetch_vars

NextPages == StartFetch \/ RequestPage \/ FilterTags

SpecPages == InitPages /\ [][NextPages]_vars

\* the fairness of a call: a step that can be taken is taken (the loop and
\* the filter run in one thread, nothing else is scheduled)
SpecPagesFair == SpecPages /\ WF_vars(NextPages)

-----------------------------------------------------------------------------
(* The vocabulary of the properties *)

\* semantic-version ordering as the specification words it: the release
\* segments compared numerically from the left (a missing segment counts as
\* 0), and with equal segments a pre-release below the final release
Seg(rel, i) == IF i <= Len(rel) THEN rel[i] ELSE 0

Width(a, b) == IF Len(a.release) >= Len(b.release) THEN Len(a.release) ELSE Len(b.release)

SameSegments(a, b) ==
  \A i \in 1..Width(a, b) : Seg(a.release, i) = Seg(b.release, i)

SemverLt(a, b) ==
  \/ \E i \in 1..Width(a, b) :
       /\ Seg(a.release, i) < Seg(b.release, i)
       /\ \A j \in 1..(i - 1) : Seg(a.release, j) = Seg(b.release, j)
  \/ /\ SameSegments(a, b)
     /\ a.pre # -1
     /\ (b.pre = -1 \/ a.pre < b.pre)

\* the planner's decision as the specification words it
Decision(latest, current) ==
  IF ~latest.some THEN "unknown"
  ELSE IF ~Parse(current).ok \/ ~Parse(latest.val).ok THEN "unknown"
  ELSE IF SemverLt(Parse(current), Parse(latest.val)) THEN "update-available"
  ELSE "up-to-date"

\* the decision a row of the table reports
Reported(status) ==
  IF status \in {"Update available", "Updated", "Would update", "Failed"}
  THEN "update-available"
  ELSE IF status \in {"Up to date", "Already latest"} THEN "up-to-date"
  ELSE "unknown"

Rows(t) == {t[i] : i \in 1..Len(t)}

\* the text with its first occurrence of old replaced by new
ReplaceFirst(s, old, new) ==
  LET p == Find(s, old, 1) IN
  IF p = 0 THEN s
  ELSE Slice(s, 1, p - 1) \o new \o Slice(s, p + Len(old), Len(s))

\* a run of the update command that went through its dependencies
UpdateRunDone == pc = "done" /\ cmd = "update" /\ exit_code = 0

\* the last call of update_version_in_file wrote the file
Wrote == last_call.made /\ last_call.ret /\ ~last_call.dry_run

-----------------------------------------------------------------------------
(* C1 *)

\* C1: update writes a manifest file only for a marker decided
\* update-available and only with --apply; in a check run, in a dry run and
\* for a marker decided up-to-date or unknown no file changes.
C1_WritesOnlyOnApply ==
  [][files' # files =>
       /\ pc = "marker"
       /\ cmd = "update"
       /\ apply
       /\ Decision(latest_version, watchdog_lines[marker_i].current_version)
            = "update-available"
       /\ \A f \in FileIds : f # config[dep_i].file => files'[f] = files[f]]_vars

\* a dry run that reported a row as "Would update" ended with the files as
\* they were, and the --apply run after it has rewritten one
C1_Witness ==
  /\ cmd = "update" /\ apply /\ files # files0
  /\ prev.cmd = "update" /\ ~prev.apply /\ prev.files = prev.files0
  /\ \E r \in Rows(prev.table) : r.status = "Would update"

-----------------------------------------------------------------------------
(* C2 *)

\* C2: a call of update_version_in_file that wrote the file replaced
\* only the first occurrence of old on line n; the rest of the line is as
\* it was.
C2_FirstOccurrenceOnly ==
  Wrote /\ last_call.line_num \in 1..Len(last_call.before) =>
    files[last_call.file][last_call.line_num]
      = ReplaceFirst(last_call.before[last_call.line_num], last_call.old, last_call.new)

-----------------------------------------------------------------------------
(* C3 *)

\* C3: a call of update_version_in_file made by update that wrote the
\* file left the number of lines and every line but line n as they were, and
\* every marker of the current dependency still to be processed is still
\* what a scan of the file finds at its line number.
C3_OtherLinesKept ==
  /\ Wrote =>
       /\ Len(files[last_call.file]) = Len(last_call.before)
       /\ \A i \in 1..Len(last_call.before) :
            i # last_call.line_num => files[last_call.file][i] = last_call.before[i]
  /\ pc = "marker" =>
       LET found == Rows(find_watchdog_lines(files[config[dep_i].file])) IN
       \A j \in marker_i..Len(watchdog_lines) : watchdog_lines[j] \in found

\* update has rewritten the line of one marker and another marker of the
\* same file is still to come
C3_Witness ==
  /\ pc = "marker"
  /\ Wrote
  /\ last_call.row = Len(table)
  /\ marker_i > 1
  /\ watchdog_lines[marker_i].line_num # last_call.line_num

-----------------------------------------------------------------------------
(* C4 *)

\* C4: when an update --apply run is followed by another update run on
\* the files it left, the second run writes nothing and reports "Already
\* latest" for every marker the first run updated.
C4_SecondRunIdle ==
  UpdateRunDone /\ prev.cmd = "update" /\ prev.apply /\ prev.exit_code = 0 =>
    /\ files = files0
    /\ \A r \in Rows(prev.table) :
         r.status = "Updated" =>
           \E q \in Rows(table) :
             /\ q.dep = r.dep
             /\ q.line_num = r.line_num
             /\ q.status = "Already latest"

-----------------------------------------------------------------------------
(* C5, C6 *)

Parseable(versions) == {i \in 1..Len(versions) : Parse(versions[i]).ok}

\* s is a greatest element of the parseable candidates
IsMaxOf(s, versions) ==
  /\ Parse(s).ok
  /\ \E i \in Parseable(versions) :
       /\ ~SemverLt(Parse(s), Parse(versions[i]))
       /\ ~SemverLt(Parse(versions[i]), Parse(s))
  /\ \A i \in Parseable(versions) : ~SemverLt(Parse(s), Parse(versions[i]))

\* C5: get_latest_version returns the semantic-version maximum of the
\* candidates, and None when the list is empty or holds no parseable
\* candidate.
C5_LatestIsMaxOrNone ==
  pc = "ret" =>
    IF Parseable(available_versions) = {}
    THEN latest_version = None
    ELSE Parseable(available_versions) = 1..Len(available_versions) =>
           latest_version.some /\ IsMaxOf(latest_version.val, available_versions)

\* C6: with a candidate that does not parse next to one that does,
\* get_latest_version returns the maximum of the parseable candidates.
C6_UnparseableExcluded ==
  pc = "ret"
  /\ Parseable(available_versions) # {}
  /\ Parseable(available_versions) # 1..Len(available_versions) =>
    latest_version.some /\ IsMaxOf(latest_version.val, available_versions)

-----------------------------------------------------------------------------
(* C7 *)

IsPreOfFinal(current, latest) ==
  /\ latest.some
  /\ Parse(current).ok /\ Parse(latest.val).ok
  /\ Parse(current).pre # -1 /\ Parse(latest.val).pre = -1
  /\ SameSegments(Parse(current), Parse(latest.val))

\* C7: at the end of a run every row reports the planner's decision for its marker and
\* latest version (cannot check without latest, unknown for an unparseable
\* current version, update-available when latest > current, up-to-date
\* otherwise); a pre-release of the latest final release is update-available;
\* check and update report the same decision for the same marker and latest.
C7_Decision ==
  pc = "done" =>
    /\ \A r \in Rows(table) :
         /\ Reported(r.status) = Decision(r.latest, r.current)
         /\ (r.status = "Cannot check") = ~r.latest.some
         /\ IsPreOfFinal(r.current, r.latest) => Reported(r.status) = "update-available"
    /\ \A r \in Rows(table), q \in Rows(prev.table) :
         r.current = q.current /\ r.latest = q.latest =>
           Reported(r.status) = Reported(q.status)

\* check reported "Update available" for a marker pinned to a pre-release of
\* the latest final release, and the update run after it would update it
C7_Witness ==
  /\ pc = "done" /\ cmd = "update" /\ prev.cmd = "check"
  /\ \E r \in Rows(table), q \in Rows(prev.table) :
       /\ r.current = q.current /\ r.latest = q.latest /\ r.dep = q.dep
       /\ IsPreOfFinal(r.current, r.latest)
       /\ q.status = "Update available"
       /\ r.status \in {"Would update", "Updated"}

-----------------------------------------------------------------------------
(* C8 *)

FetchFails(dep) == dep.type \in {"rss", "oci"} /\ dep.url /\ ~dep.resp.ok

RowsOf(i) == SelectSeq(table, LAMBDA r : r.dep = i)

\* the dependency i is read from files nothing has written to in this run
Untouched(i) ==
  \/ cmd = "check"
  \/ ~apply
  \/ \A j \in 1..(i - 1) : config[j].file # config[i].file

\* the guard of one of SkipDep, BeginDep, CheckMarker, UpdateMarker, Finish
\* holds: the run has a next step
CanStep ==
  \/ pc = "dep" /\ dep_i \in 1..(Len(config) + 1)
  \/ /\ pc = "marker"
     /\ cmd \in {"check", "update"}
     /\ dep_i \in 1..Len(config)
     /\ marker_i \in 1..Len(watchdog_lines)

\* C8: a run never stops inside its loops, whatever the fetches
\* answered, and a run that reached its end has the rows of the dependencies
\* in configuration order; the markers of a dependency whose fetch failed
\* are all "Cannot check"; every other dependency is decided with the
\* latest of its own candidates, and has a row for each of its markers.
C8_Isolation ==
  /\ pc \in {"dep", "marker"} => CanStep
  /\ pc = "done" /\ dep_i > 0 =>
    /\ \A a \in 1..Len(table), b \in 1..Len(table) :
         a < b => table[a].dep <= table[b].dep
    /\ \A i \in 1..Len(config) :
         /\ FetchFails(config[i]) =>
              \A r \in Rows(RowsOf(i)) : r.status = "Cannot check" /\ ~r.latest.some
         /\ ~FetchFails(config[i]) =>
              LET own == get_latest_version(
                           IF config[i].type = "rss" /\ config[i].url
                           THEN fetch_rss_versions(config[i].resp)
                           ELSE IF config[i].type = "oci" /\ config[i].url
                           THEN fetch_oci_versions(config[i].resp)
                           ELSE <<>>)
              IN \A r \in Rows(RowsOf(i)) : r.latest = own
         /\ config[i].file \in FileIds /\ Untouched(i) =>
              Len(RowsOf(i)) = Len(find_watchdog_lines(files0[config[i].file]))

\* a run came to its end with a dependency whose fetch failed before one
\* that was decided with its own latest version
C8_Witness ==
  /\ pc = "done" /\ dep_i > 0
  /\ \E i \in 1..Len(config), j \in 1..Len(config) :
       /\ i < j
       /\ FetchFails(config[i]) /\ RowsOf(i) # <<>>
       /\ \E r \in Rows(RowsOf(j)) : r.latest.some

-----------------------------------------------------------------------------
(* C9 *)

\* C9: a call of update_version_in_file with a line number outside
\* 1..(number of lines) returns False and leaves the file as it was.
C9_LineOutOfRange ==
  last_call.made /\ last_call.file \in FileIds
  /\ last_call.line_num \notin 1..Len(last_call.before) =>
    ~last_call.ret /\ files[last_call.file] = last_call.before

-----------------------------------------------------------------------------
(* C10 *)

OldAbsent ==
  /\ last_call.made
  /\ last_call.file \in FileIds
  /\ last_call.line_num \in 1..Len(last_call.before)
  /\ ~Contains(last_call.before[last_call.line_num], last_call.old)

-----------------------------------------------------------------------------
(* C11 *)

\* the repository descriptor of the dependency a row was decided for
Descriptor(r) ==
  [type |-> config[r.dep].type, url |-> config[r.dep].url, resp |-> config[r.dep].resp]

\* C11: over a run no marker (file, line number) is decided against
\* the candidates of two different repository descriptors, also when two
\* dependencies name the same source file.
C11_OneStrategyPerMarker ==
  pc \in {"dep", "marker", "done"} =>
    \A r \in Rows(table), q \in Rows(table) :
      r.file = q.file /\ r.line_num = q.line_num => Descriptor(r) = Descriptor(q)

-----------------------------------------------------------------------------
(* C12 *)

\* the API host and the repository the URL of the call names
OnDocker == oci_url = OciScheme \o DockerIo \o <<"/">> \o RepoLA

ExpectedFirstUrl ==
  IF OnDocker THEN Https \o DockerApi \o V2 \o RepoLA \o TagsList
  ELSE Https \o RIo \o V2 \o RepoA \o TagsList

ExpectedHost == IF OnDocker THEN DockerApi ELSE RIo

\* the response has a link with rel="next"
HasNext(resp) == \E i \in 1..Len(resp.links) : resp.links[i].rel = RelN

\* the target of its first rel="next" link
NextTarget(resp) ==
  resp.links[CHOOSE i \in 1..Len(resp.links) :
               /\ resp.links[i].rel = RelN
               /\ \A j \in 1..(i - 1) : resp.links[j].rel # RelN].target

\* the URL a link target stands for: a path from the root on the API host,
\* anything else as it is
UrlOf(target) ==
  IF target[1] = "/" THEN Https \o ExpectedHost \o target ELSE target

\* the response was read: no error status, tags that are a list
Read(resp) == resp.ok /\ ~resp.null_tags

RECURSIVE TagsOf(_)
\* the tags of the pages read, in the order of the requests
TagsOf(rs) ==
  IF rs = <<>> THEN <<>>
  ELSE TagsOf(SubSeq(rs, 1, Len(rs) - 1))
       \o (IF Read(rs[Len(rs)]) THEN rs[Len(rs)].tags ELSE <<>>)

LastResponse == requested[Len(requested)]

\* the loop has seen a response without next link
LoopEnded == requested # <<>> /\ Read(LastResponse) /\ ~HasNext(LastResponse)

\* the requests, the accumulation and the end of the loop
PagesInOrder ==
  /\ requested # <<>> => requested[1].url = ExpectedFirstUrl
  /\ \A k \in 2..Len(requested) :
       /\ Read(requested[k - 1]) /\ HasNext(requested[k - 1])
       /\ requested[k].url = UrlOf(NextTarget(requested[k - 1]))
  /\ pc \in {"loop", "filter"} => all_tags = TagsOf(requested)
  /\ LoopEnded => pc \in {"filter", "ret"}
  /\ pc = "filter" => LoopEnded
  /\ pc = "ret" /\ LoopEnded => available_versions = OciVersions(TagsOf(requested))

\* C12: the loop requests the first tags URL, then after each response
\* the URL of its rel="next" link (a path from the root resolved against the
\* API host), accumulates the tags of the pages in page order and ends at the
\* first response without next link; the call then returns the filtered
\* accumulation.
C12_Pagination == []PagesInOrder /\ (LoopEnded ~> (pc = "ret"))

\* three pages were read, the second from another host behind an absolute
\* link, the third behind a relative one, and the call returned the filtered
\* tags of all three
C12_Witness ==
  /\ pc = "ret"
  /\ Len(requested) = 3
  /\ LoopEnded
  /\ requested[2].url = Mirror
  /\ requested[3].url = Https \o ExpectedHost \o P3
  /\ available_versions = <<S100, S110, S200, S1100>>

=============================================================================
